---- MODULE Spec2Model ----
(***************************************************************************)
(* Model of the service layer of the investment-platform frontend:         *)
(*   - ClientServiceAdapter: the resilience wrapper around the real and    *)
(*     the mock client service, with its cached availability flag;         *)
(*   - ClientInvestmentService: per-client statistics and their batched    *)
(*     computation;                                                        *)
(*   - ApiClient.request: the HTTP wrapper, its handling of 401 and 403    *)
(*     and the errors it throws, as seen by ClientsPage;                   *)
(*   - the conversions of the real services between the frontend and the   *)
(*     backend shape of clients, allocations, assets and movements.        *)
(* Every await of the source is a point where other callbacks may run, so  *)
(* each action below is the synchronous block between two awaits.          *)
(***************************************************************************)
EXTENDS Integers, Sequences, FiniteSets, Bags, TLC

VARIABLES
    backendAvailable,   \* ClientServiceAdapter.backendAvailable: "null", "true", "false"
    calls,              \* bag of the adapter calls awaiting a result
    settled,            \* the adapter call that settled last, NoCall before the first
    started,            \* number of adapter calls started
    probesIssued,       \* number of checkBackendHealth() requests issued
    liveFailures,       \* number of real-service calls that threw
    downgraded,         \* the flag has been "false" at some moment
    sawAvailable,       \* number of calls that were told "available" before any live failure
    alwaysThrows,       \* environment: TRUE when every request to the backend throws
    clientId,           \* the client id the caller passes to the id-taking methods
    backendRejects,     \* environment: TRUE when the backend answers every client
                        \* mutation with a 4xx and a JSON detail
    clientIds,          \* getMultipleClientInvestmentStats: the ids asked for
    failAt,             \* environment: for each id, the fetch of its computation that throws
    phase,              \* "idle", "running" (a batch is awaited) or "returned"
    i,                  \* the loop index of getMultipleClientInvestmentStats
    comp,               \* the computations of the current batch, in batch order
    statsMap,           \* the Map being filled, as a function from id to record
    single,             \* one getClientInvestmentStats call: what it fetched and returned
    token,              \* localStorage 'access_token': "absent" or the stored token
    location,           \* window.location.pathname
    pendingNavigation,  \* the path assigned to window.location.href, "none" once loaded
    redirects,          \* number of assignments to window.location.href
    requests,           \* number of ApiClient requests started
    req,                \* the ApiClient request of the page: its position and result
    pageError,          \* the error banner of ClientsPage, "null" when there is none
    conv,               \* one conversion between the frontend and the backend shape:
                        \* the method, what it was given and what it produced
    cpfCall,            \* one call of the CPF helpers of the schemas: the function,
                        \* its argument and the results of both schemas
    searchTerm,         \* clients page: the text of the search box
    debouncedSearchTerm,\* clients page: the term the list is loaded for
    timers,             \* clients page: the debounce timers that are pending
    typed,              \* clients page: how many times the search box changed
    authLoading,        \* clients page: isLoading of useRequireAuth
    refreshTrigger,     \* clients page: the refresh counter
    loads,              \* clients page: the loadData calls in flight, each with
                        \* the term it was started for and the await it is at
    loadsStarted,       \* clients page: how many loadData calls were started
    clients,            \* clients page: the term whose list is displayed
    clientInvestmentStats, \* clients page: the term whose statistics are displayed
    contextToken,       \* AuthProvider: the token state, "null" or the token
    user,               \* AuthProvider: the user state, "null" or "user"
    isLoading,          \* AuthProvider: the isLoading state
    initialized,        \* AuthProvider: whether initializeAuth has run since the mount
    authPending         \* AuthProvider: the login or register call awaiting the backend

adapterVars ==
    <<backendAvailable, calls, settled, started, probesIssued, liveFailures,
      downgraded, sawAvailable, alwaysThrows, clientId,
                   backendRejects>>

statsVars == <<clientIds, failAt, phase, i, comp, statsMap>>

httpVars ==
    <<token, location, pendingNavigation, redirects, requests, req, pageError>>

pageVars == <<searchTerm, debouncedSearchTerm, timers, typed, authLoading,
              refreshTrigger, loads, loadsStarted, clients,
              clientInvestmentStats>>

authVars == <<contextToken, user, isLoading, initialized, authPending>>

vars == <<adapterVars, statsVars, single, httpVars, conv, cpfCall,
          pageVars, authVars>>

\* what the actions of one component leave alone
notAdapterVars ==
    <<statsVars, single, httpVars, conv, cpfCall, pageVars,
      authVars>>
notStatsVars ==
    <<adapterVars, single, httpVars, conv, cpfCall, pageVars,
      authVars>>
notComputeVars ==
    <<adapterVars, statsVars, httpVars, conv, cpfCall, pageVars,
      authVars>>
notHttpVars ==
    <<adapterVars, statsVars, single, conv, cpfCall, pageVars,
      authVars>>
notConvVars ==
    <<adapterVars, statsVars, single, httpVars, cpfCall, pageVars,
      authVars>>
notCpfVars ==
    <<adapterVars, statsVars, single, httpVars, conv, pageVars,
      authVars>>
notPageVars ==
    <<adapterVars, statsVars, single, token, location, pendingNavigation,
      redirects, requests, req, conv, cpfCall, authVars>>
notAuthVars ==
    <<adapterVars, statsVars, single, redirects, requests, req, pageError,
      conv, cpfCall, pageVars>>

----------------------------------------------------------------------------
(* Bounds *)

\* number of adapter calls started in one run
MaxOps == 3

\* longest list of movements and of allocations a single computation fetches
MaxMovements == 3
MaxAllocations == 3

\* number of ApiClient requests the page starts in one run
MaxRequests == 2

\* longest string given to the CPF helpers
MaxCpfLen == 11

\* number of changes of the search box of the clients page in one run
MaxTyped == 2

\* number of refreshes of the clients page in one run
MaxRefreshes == 1

\* highest page asked of getClients
MaxPage == 3

\* highest number of clients the backend holds
MaxClients == 12

----------------------------------------------------------------------------
(* mockClientService *)

\* the hand-authored dataset of mockClientService.getClients
mockClients ==
    << [id |-> "1", name |-> "Joao Silva Santos", status |-> "active"],
       [id |-> "2", name |-> "Maria Oliveira Costa", status |-> "active"] >>

\* Math.ceil(n / d) for n >= 0, d > 0
Ceil(n, d) == (n + d - 1) \div d

Resolved(from, value) == [kind |-> "resolved", from |-> from, value |-> value]
Rejected(from, error) == [kind |-> "rejected", from |-> from, error |-> error]
Pending == [kind |-> "pending"]

\* variant of mockGetClients that filters the dataset down to nothing
mockGetClients_empty(page, limit) ==
    Resolved("mock", [items |-> << >>, total |-> 0, page |-> page, totalPages |-> 0])

\* mockClientService.getClients(filters, sortBy, page, limit): filters and
\* sortBy are ignored, the whole dataset is returned
mockGetClients(page, limit) ==
    Resolved("mock", [items |-> mockClients,
                      total |-> Len(mockClients),
                      page |-> page,
                      totalPages |-> Ceil(Len(mockClients), limit)])

\* clientsResponse.items.find(c => c.id === id)
mockFind(id) == {k \in 1..Len(mockClients) : mockClients[k].id = id}

\* variant of mockGetClient that answers with the first client of the
\* dataset instead of throwing when the id is not found
mockGetClient_noCheck(id) ==
    IF mockFind(id) = {}
    THEN Resolved("mock", mockClients[1])
    ELSE Resolved("mock", mockClients[CHOOSE k \in mockFind(id) : \A j \in mockFind(id) : k <= j])

\* mockClientService.getClient(id)
mockGetClient(id) ==
    IF mockFind(id) = {}
    THEN Rejected("mock", "Cliente nao encontrado")
    ELSE Resolved("mock", mockClients[CHOOSE k \in mockFind(id) : \A j \in mockFind(id) : k <= j])

\* mockClientService.createClient(client): the client with a fresh id
mockCreateClient ==
    Resolved("mock", [id |-> "Date.now", name |-> "new client", status |-> "prospect"])

\* mockClientService.updateClient(id, updates): {...existing, ...updates}
mockUpdateClient(id) ==
    LET existing == mockGetClient(id)
    IN  IF existing.kind = "rejected"
        THEN existing
        ELSE Resolved("mock", [existing.value EXCEPT !.name = "X"])

\* mockClientService.deleteClient(id): logs and resolves with undefined
mockDeleteClient(id) == Resolved("mock", [undefined |-> TRUE])

\* mockClientService.getClientWithAssets(id)
mockGetClientWithAssets(id) ==
    LET client == mockGetClient(id)
    IN  IF client.kind = "rejected"
        THEN client
        ELSE Resolved("mock", [id |-> client.value.id,
                               name |-> client.value.name,
                               status |-> client.value.status,
                               totalInvested |-> 50000,
                               currentValue |-> 55000,
                               allocations |-> 2])

\* the mock call each adapter method ends with
mockOutcome(method, id) ==
    CASE method = "getClients"          -> mockGetClients(1, 10)
      [] method = "getClient"           -> mockGetClient(id)
      [] method = "createClient"        -> mockCreateClient
      [] method = "updateClient"        -> mockUpdateClient(id)
      [] method = "deleteClient"        -> mockDeleteClient(id)
      [] method = "getClientWithAssets" -> mockGetClientWithAssets(id)

----------------------------------------------------------------------------
(* ClientServiceAdapter *)

\* the methods that change a client
Mutations == {"createClient", "updateClient", "deleteClient"}

NoCall == [pc |-> "none"]

InFlight == BagToSet(calls)

\* replace the waiting call c by its next stage d
Advance(c, d) == (calls (-) SetToBag({c})) (+) SetToBag({d})

\* a call of a public method, up to its first await.  checkBackend() reads
\* the flag: when it is null a health probe is issued and awaited, otherwise
\* the cached value is returned and the method goes on to the real service
\* (value true) or to the mock service (value false).
Call(method, id) ==
    /\ started < MaxOps
    /\ started' = started + 1
    /\ LET base == [method |-> method, id |-> id,
                    pc |-> "probe",
                    isBackendAvailable |-> "unset",
                    probed |-> FALSE,
                    realCalled |-> FALSE,
                    liveThrew |-> FALSE,
                    outcome |-> Pending]
       IN  CASE backendAvailable = "null" ->
                  /\ calls' = calls (+) SetToBag({[base EXCEPT !.probed = TRUE]})
                  /\ probesIssued' = probesIssued + 1
                  /\ UNCHANGED sawAvailable
             [] backendAvailable = "true" ->
                  /\ calls' = calls (+) SetToBag({[base EXCEPT
                                  !.pc = "real",
                                  !.isBackendAvailable = "true",
                                  !.realCalled = TRUE]})
                  /\ sawAvailable' = sawAvailable + (IF liveFailures = 0 THEN 1 ELSE 0)
                  /\ UNCHANGED probesIssued
             [] backendAvailable = "false" ->
                  /\ calls' = calls (+) SetToBag({[base EXCEPT
                                  !.pc = "mock",
                                  !.isBackendAvailable = "false"]})
                  /\ UNCHANGED <<probesIssued, sawAvailable>>
    /\ UNCHANGED <<backendAvailable, settled, liveFailures, downgraded, alwaysThrows, clientId,
                   backendRejects>>
    /\ UNCHANGED notAdapterVars

getClients == Call("getClients", "-")

getClient == Call("getClient", clientId)

createClient == Call("createClient", "-")

updateClient == Call("updateClient", clientId)

deleteClient == Call("deleteClient", clientId)

getClientWithAssets == Call("getClientWithAssets", clientId)

\* checkBackendHealth() settles for the waiting call c, GET /health having
\* succeeded (true) or thrown (false); checkBackend stores the result in the
\* flag and returns it, and the method then goes on to the real service or
\* to the mock service
checkBackend(c, healthy) ==
    /\ c.pc = "probe"
    /\ alwaysThrows => ~healthy
    /\ backendAvailable' = (IF healthy THEN "true" ELSE "false")
    /\ downgraded' = (downgraded \/ ~healthy)
    /\ calls' = Advance(c, [c EXCEPT
                    !.isBackendAvailable = backendAvailable',
                    !.pc = IF healthy THEN "real" ELSE "mock",
                    !.realCalled = healthy])
    /\ sawAvailable' = sawAvailable + (IF healthy /\ liveFailures = 0 THEN 1 ELSE 0)
    /\ UNCHANGED <<settled, started, probesIssued, liveFailures, alwaysThrows, clientId,
                   backendRejects>>
    /\ UNCHANGED notAdapterVars

ProbeSettles == \E c \in InFlight : \E healthy \in BOOLEAN : checkBackend(c, healthy)

\* the real service call of c resolves: the method returns its value
RealResolves ==
    \E c \in InFlight :
        /\ c.pc = "real"
        /\ ~alwaysThrows
        /\ ~(backendRejects /\ c.method \in Mutations)
        /\ calls' = calls (-) SetToBag({c})
        /\ settled' = [c EXCEPT !.pc = "done",
                                !.outcome = Resolved("real", [backend |-> c.method])]
        /\ UNCHANGED <<backendAvailable, started, probesIssued, liveFailures,
                       downgraded, sawAvailable, alwaysThrows, clientId,
                   backendRejects>>
        /\ UNCHANGED notAdapterVars

\* variant of the catch block that falls back to the mock but leaves the
\* flag as it is
catchRealFailure_keepsFlag(c) ==
    /\ c.pc = "real"
    /\ liveFailures' = liveFailures + 1
    /\ calls' = Advance(c, [c EXCEPT !.pc = "mock", !.liveThrew = TRUE])
    /\ UNCHANGED <<backendAvailable, downgraded>>
    /\ UNCHANGED <<settled, started, probesIssued, sawAvailable, alwaysThrows, clientId,
                   backendRejects>>
    /\ UNCHANGED notAdapterVars

\* the catch block of a public method: the flag is set to false and the
\* method goes on to its mock call
catchRealFailure(c) ==
    /\ c.pc = "real"
    /\ backendAvailable' = "false"
    /\ downgraded' = TRUE
    /\ liveFailures' = liveFailures + 1
    /\ calls' = Advance(c, [c EXCEPT !.pc = "mock", !.liveThrew = TRUE])
    /\ UNCHANGED <<settled, started, probesIssued, sawAvailable, alwaysThrows, clientId,
                   backendRejects>>
    /\ UNCHANGED notAdapterVars

RealThrows == \E c \in InFlight : catchRealFailure(c)

\* the mock call of c settles and the method returns what the mock returned
MockSettles ==
    \E c \in InFlight :
        /\ c.pc = "mock"
        /\ calls' = calls (-) SetToBag({c})
        /\ settled' = [c EXCEPT !.pc = "done",
                                !.outcome = mockOutcome(c.method, c.id)]
        /\ UNCHANGED <<backendAvailable, started, probesIssued, liveFailures,
                       downgraded, sawAvailable, alwaysThrows, clientId,
                   backendRejects>>
        /\ UNCHANGED notAdapterVars

----------------------------------------------------------------------------
(* ClientInvestmentService *)

\* const batchSize = 5
batchSize == 5

\* largest number of ids passed to getMultipleClientInvestmentStats
MaxIds == 23

Min(a, b) == IF a < b THEN a ELSE b

Range(f) == {f[k] : k \in DOMAIN f}

\* an absent value (undefined) and a present one
undefined == << >>
Some(v) == << v >>

\* what the backend holds for a client: its allocations (buy_date as a day
\* number), its balance record and its movements
allocationsOf(id) ==
    CASE id % 3 = 0 -> << >>
      [] id % 3 = 1 -> << [asset_id |-> 1, buy_date |-> 10],
                          [asset_id |-> 2, buy_date |-> 30],
                          [asset_id |-> 3, buy_date |-> 20] >>
      [] id % 3 = 2 -> << [asset_id |-> 1, buy_date |-> 15 + id] >>

balanceOf(id) == [clientId |-> id, totalBalance |-> 100 * id]

movementsOf(id) ==
    CASE id % 2 = 0 -> << [type |-> "deposit", status |-> "completed", amount |-> 100],
                          [type |-> "deposit", status |-> "completed", amount |-> 50],
                          [type |-> "deposit", status |-> "pending", amount |-> 9999] >>
      [] id % 2 = 1 -> << [type |-> "withdrawal", status |-> "completed", amount |-> 70],
                          [type |-> "deposit", status |-> "completed", amount |-> id],
                          [type |-> "deposit", status |-> "failed", amount |-> 5] >>

\* variant of the sum that counts the deposits of every status
RECURSIVE totalDeposits_anyStatus(_)
totalDeposits_anyStatus(movements) ==
    IF movements = << >> THEN 0
    ELSE LET m == Head(movements)
         IN  (IF m.type = "deposit" THEN m.amount ELSE 0)
             + totalDeposits_anyStatus(Tail(movements))

\* movements.filter(type === 'deposit' && status === 'completed')
\*          .reduce((sum, movement) => sum + movement.amount, 0)
RECURSIVE totalDeposits(_)
totalDeposits(movements) ==
    IF movements = << >> THEN 0
    ELSE LET m == Head(movements)
         IN  (IF m.type = "deposit" /\ m.status = "completed" THEN m.amount ELSE 0)
             + totalDeposits(Tail(movements))

\* variant of the reduction that keeps the buy_date of the last allocation
latestBuyDate_last(allocations, latest) ==
    IF allocations = << >> THEN latest
    ELSE allocations[Len(allocations)].buy_date

\* allocations.reduce((latest, allocation) =>
\*     new Date(allocation.buy_date) > new Date(latest) ? allocation.buy_date : latest, start)
RECURSIVE latestBuyDate(_, _)
latestBuyDate(allocations, latest) ==
    IF allocations = << >> THEN latest
    ELSE latestBuyDate(Tail(allocations),
                       IF Head(allocations).buy_date > latest
                       THEN Head(allocations).buy_date ELSE latest)

\* the record returned at the end of the try block
computedStats(id, allocations, balance, movements) ==
    [client_id |-> id,
     total_allocations |-> Len(allocations),
     total_invested |-> totalDeposits(movements),
     net_balance |-> balance.totalBalance,
     last_investment_date |->
         IF Len(allocations) > 0
         THEN Some(latestBuyDate(allocations, allocations[1].buy_date))
         ELSE undefined]

\* variant of the catch block's record that keeps what was already fetched
defaultStats_partial(id) ==
    [client_id |-> id,
     total_allocations |-> Len(allocationsOf(id)),
     total_invested |-> 0,
     net_balance |-> 0,
     last_investment_date |-> undefined]

\* the record returned by the catch block
defaultStats(id) ==
    [client_id |-> id,
     total_allocations |-> 0,
     total_invested |-> 0,
     net_balance |-> 0,
     last_investment_date |-> undefined]

Fetches == {"allocations", "balance", "movements"}

\* variant of the slice that stops one id early
batchOf_short(ids, from) == SubSeq(ids, from + 1, Min(from + batchSize - 1, Len(ids)))

\* clientIds.slice(i, i + batchSize)
batchOf(ids, from) == SubSeq(ids, from + 1, Min(from + batchSize, Len(ids)))

\* batch.map(clientId => this.getClientInvestmentStats(clientId)): every
\* computation of the batch runs up to its first await, the allocations fetch
startBatch(ids, from) ==
    [s \in 1..Len(batchOf(ids, from)) |->
        [clientId |-> batchOf(ids, from)[s], pc |-> "allocations",
         threw |-> "none", result |-> Pending]]

\* the failures the backend shows in one run: none, one client whose fetch f
\* throws, or fetch f throwing for every client
FailPlans(ids) ==
    {[id \in Range(ids) |-> "none"]}
        \cup {[id \in Range(ids) |-> IF id = x THEN f ELSE "none"] :
                  x \in Range(ids), f \in Fetches}
        \cup {[id \in Range(ids) |-> f] : f \in Fetches}

\* getMultipleClientInvestmentStats(clientIds) up to its first await
getMultipleClientInvestmentStats ==
    /\ phase = "idle"
    \* the inputs: ids 1..n for the sizes around the batch boundary, and
    \* one list with a repeated id
    /\ \E ids \in {[k \in 1..n |-> k] :
                        n \in {0, 1, batchSize, batchSize + 1, MaxIds}}
                    \cup {<<1, 2, 1>>} :
       \E plan \in FailPlans(ids) :
        /\ clientIds' = ids
        /\ failAt' = plan
        /\ statsMap' = << >>
        /\ i' = 0
        /\ IF 0 < Len(ids)
           THEN phase' = "running" /\ comp' = startBatch(ids, 0)
           ELSE phase' = "returned" /\ comp' = << >>
    /\ UNCHANGED notStatsVars

\* allocationService.getAllocationsByClient resolves; the balance is fetched
AllocationsResolve ==
    \E s \in DOMAIN comp :
        /\ phase = "running"
        /\ comp[s].pc = "allocations"
        /\ failAt[comp[s].clientId] # "allocations"
        /\ comp' = [comp EXCEPT ![s].pc = "balance"]
        /\ UNCHANGED <<clientIds, failAt, phase, i, statsMap>>
        /\ UNCHANGED notStatsVars

\* movementService.getClientBalance resolves; the movements are fetched
BalanceResolves ==
    \E s \in DOMAIN comp :
        /\ phase = "running"
        /\ comp[s].pc = "balance"
        /\ failAt[comp[s].clientId] # "balance"
        /\ comp' = [comp EXCEPT ![s].pc = "movements"]
        /\ UNCHANGED <<clientIds, failAt, phase, i, statsMap>>
        /\ UNCHANGED notStatsVars

\* movementService.getClientMovements resolves; the statistics are computed
\* and the computation resolves with them
MovementsResolve ==
    \E s \in DOMAIN comp :
        /\ phase = "running"
        /\ comp[s].pc = "movements"
        /\ failAt[comp[s].clientId] # "movements"
        /\ comp' = [comp EXCEPT
                ![s].pc = "settled",
                ![s].result = Resolved("try",
                    computedStats(comp[s].clientId,
                                  allocationsOf(comp[s].clientId),
                                  balanceOf(comp[s].clientId),
                                  movementsOf(comp[s].clientId)))]
        /\ UNCHANGED <<clientIds, failAt, phase, i, statsMap>>
        /\ UNCHANGED notStatsVars

\* variant in which one failure gives every computation of the batch the
\* default record
catchStatsFailure_wholeBatch(s) ==
    comp' = [t \in DOMAIN comp |->
                [comp[t] EXCEPT
                    !.pc = "settled",
                    !.threw = IF t = s THEN comp[s].pc ELSE "none",
                    !.result = Resolved("catch", defaultStats(comp[t].clientId))]]

\* the catch block of getClientInvestmentStats: the computation resolves
\* with the default record
catchStatsFailure(s) ==
    comp' = [comp EXCEPT
        ![s].pc = "settled",
        ![s].threw = comp[s].pc,
        ![s].result = Resolved("catch", defaultStats(comp[s].clientId))]

\* the fetch a computation is waiting for throws
FetchThrows ==
    \E s \in DOMAIN comp :
        /\ phase = "running"
        /\ comp[s].pc \in Fetches
        /\ failAt[comp[s].clientId] = comp[s].pc
        /\ catchStatsFailure(s)
        /\ UNCHANGED <<clientIds, failAt, phase, i, statsMap>>
        /\ UNCHANGED notStatsVars

\* batchResults.forEach(stats => statsMap.set(stats.client_id, stats))
RECURSIVE setAll(_, _)
setAll(map, results) ==
    IF results = << >> THEN map
    ELSE LET stats == Head(results).result.value
             rest == [id \in DOMAIN map \ {stats.client_id} |-> map[id]]
         IN  setAll(rest @@ (stats.client_id :> stats), Tail(results))

\* variant of the loop that goes on as soon as one computation of the batch
\* has resolved (a race instead of Promise.all)
BatchSettles_early ==
    /\ phase = "running"
    /\ \E s \in DOMAIN comp : comp[s].pc = "settled"
    /\ statsMap' = setAll(statsMap,
                          SelectSeq(comp, LAMBDA c : c.pc = "settled"))
    /\ i' = i + batchSize
    /\ IF i' < Len(clientIds)
       THEN phase' = "running" /\ comp' = startBatch(clientIds, i')
       ELSE phase' = "returned" /\ comp' = << >>
    /\ UNCHANGED <<clientIds, failAt>>
    /\ UNCHANGED notStatsVars

\* Promise.all(batchPromises) resolves once every computation of the batch
\* has resolved: the results are stored, and the loop starts the next batch
\* or the method returns the map
BatchSettles ==
    /\ phase = "running"
    /\ \A s \in DOMAIN comp : comp[s].pc = "settled"
    /\ statsMap' = setAll(statsMap, comp)
    /\ i' = i + batchSize
    /\ IF i' < Len(clientIds)
       THEN phase' = "running" /\ comp' = startBatch(clientIds, i')
       ELSE phase' = "returned" /\ comp' = << >>
    /\ UNCHANGED <<clientIds, failAt>>
    /\ UNCHANGED notStatsVars

----------------------------------------------------------------------------
(* ClientInvestmentService.getClientInvestmentStats on arbitrary data *)

\* the sequences over S of length at most n
SeqsUpTo(S, n) == UNION {[1..k -> S] : k \in 0..n}

\* getClientInvestmentStats(clientId) when its three fetches resolve: the
\* try block runs to its return
getClientInvestmentStats ==
    /\ single = [pc |-> "idle"]
    /\ \E allocations \in SeqsUpTo([asset_id : {1}, buy_date : {10, 20, 30}], MaxAllocations),
          balance \in {[clientId |-> 1, totalBalance |-> b] : b \in {0, 250}},
          movements \in SeqsUpTo([type : {"deposit", "withdrawal"},
                                   status : {"completed", "pending"},
                                   amount : {50, 100, 9999}],
                                  MaxMovements) :
        single' = [pc |-> "resolved",
                   allocations |-> allocations,
                   balance |-> balance,
                   movements |-> movements,
                   stats |-> computedStats(1, allocations, balance, movements)]
    /\ UNCHANGED notComputeVars

----------------------------------------------------------------------------
(* ApiClient.request, in the browser, called by ClientsPage *)

publicPaths == {"/", "/login", "/register"}

\* response.ok
ok(status) == status >= 200 /\ status <= 299

\* `HTTP ${response.status}: ${response.statusText}`
httpMessage(status) ==
    CASE status = 400 -> "HTTP 400: Bad Request"
      [] status = 401 -> "HTTP 401: Unauthorized"
      [] status = 403 -> "HTTP 403: Forbidden"
      [] status = 500 -> "HTTP 500: Internal Server Error"
      [] OTHER -> "HTTP"

\* the response bodies: one that is not JSON, and the JSON objects with or
\* without a detail (possibly the empty string) and a message
NotJson == [parseable |-> FALSE, detail |-> undefined, message |-> undefined]
Bodies ==
    {NotJson} \cup
    [parseable : {TRUE},
     detail : {undefined, Some(""), Some("CPF already registered")},
     message : {undefined, Some("Validation failed")}]

\* a JavaScript value that is neither undefined nor the empty string
Truthy(x) == x # undefined /\ x # Some("")

\* response.json().catch(() => ({}))
errorData(body) ==
    IF body.parseable THEN body
    ELSE [parseable |-> TRUE, detail |-> undefined, message |-> undefined]

\* variant of the message that also reads the body's message field
errorMessage_detailOrMessage(status, body) ==
    IF Truthy(errorData(body).detail) THEN errorData(body).detail[1]
    ELSE IF Truthy(errorData(body).message) THEN errorData(body).message[1]
    ELSE httpMessage(status)

\* errorData.detail || `HTTP ${response.status}: ${response.statusText}`
errorMessage(status, body) ==
    IF Truthy(errorData(body).detail) THEN errorData(body).detail[1]
    ELSE httpMessage(status)

\* variant of the throw that lets a 401 or 403 end without an error
errorOutcome_authSwallowed(status, body) ==
    IF status \in {401, 403} THEN Resolved("api", NotJson)
    ELSE Rejected("api", errorMessage(status, body))

\* throw new Error(...), passed on by the catch block of request
errorOutcome(status, body) == Rejected("api", errorMessage(status, body))

\* variant of the handling that treats 401 only
handleAuthFailure_only401(status) ==
    IF status = 401
    THEN /\ token' = "absent"
         /\ IF location \notin publicPaths
            THEN pendingNavigation' = "/login" /\ redirects' = redirects + 1
            ELSE UNCHANGED <<pendingNavigation, redirects>>
    ELSE UNCHANGED <<token, pendingNavigation, redirects>>

\* the two blocks for 403 and 401: the token is removed, and
\* window.location.href is set to '/login' off the public paths
handleAuthFailure(status) ==
    IF status \in {401, 403}
    THEN /\ token' = "absent"
         /\ IF location \notin publicPaths
            THEN pendingNavigation' = "/login" /\ redirects' = redirects + 1
            ELSE UNCHANGED <<pendingNavigation, redirects>>
    ELSE UNCHANGED <<token, pendingNavigation, redirects>>

NoRequest ==
    [pc |-> "idle", endpoint |-> "", authorization |-> "absent",
     status |-> 0, body |-> NotJson, outcome |-> Pending]

\* the catch block of ClientsPage.loadData: the message contains '403' or
\* 'Forbidden', else '401' or 'Unauthorized', else neither
loadDataCatch(message) ==
    IF message = "HTTP 403: Forbidden" THEN "Acesso negado"
    ELSE IF message = "HTTP 401: Unauthorized" THEN "Sessao expirada"
    ELSE "Erro ao carregar clientes"

\* what the page shows once its request has ended with the given outcome
pageAfter(r, outcome) ==
    IF r.endpoint = "/clients" /\ outcome.kind = "rejected"
    THEN loadDataCatch(outcome.error)
    ELSE pageError

\* request(endpoint, options) up to its await of fetch: the stored token
\* goes into the Authorization header
request ==
    /\ req.pc \in {"idle", "done", "dropped"}
    /\ pendingNavigation = "none"
    /\ requests < MaxRequests
    /\ \E endpoint \in {"/clients", "/assets"} :
        req' = [NoRequest EXCEPT !.pc = "fetch", !.endpoint = endpoint,
                                 !.authorization = token]
    /\ requests' = requests + 1
    /\ pageError' = IF req.pc = "idle" THEN pageError ELSE "null"
    /\ UNCHANGED <<token, location, pendingNavigation, redirects>>
    /\ UNCHANGED notHttpVars

\* fetch rejects (no connection): the catch block passes the error on
FetchRejects ==
    /\ req.pc = "fetch"
    /\ req' = [req EXCEPT !.pc = "done",
                          !.outcome = Rejected("api", "Failed to fetch")]
    /\ pageError' = pageAfter(req, req'.outcome)
    /\ UNCHANGED <<token, location, pendingNavigation, redirects, requests>>
    /\ UNCHANGED notHttpVars

\* fetch resolves with a response: a 401 or 403 is handled, and the body is
\* then read in either case
ResponseArrives ==
    /\ req.pc = "fetch"
    /\ \E status \in {200, 400, 401, 403, 500}, body \in Bodies :
        /\ req' = [req EXCEPT !.pc = IF ok(status) THEN "json" ELSE "errorJson",
                              !.status = status, !.body = body]
        /\ handleAuthFailure(status)
    /\ UNCHANGED <<location, requests, pageError>>
    /\ UNCHANGED notHttpVars

\* response.json() of a 2xx response settles: the data is returned, or the
\* parse error is passed on by the catch block
DataRead ==
    /\ req.pc = "json"
    /\ req' = [req EXCEPT !.pc = "done",
                          !.outcome = IF req.body.parseable
                                      THEN Resolved("api", req.body)
                                      ELSE Rejected("api", "SyntaxError")]
    /\ pageError' = pageAfter(req, req'.outcome)
    /\ UNCHANGED <<token, location, pendingNavigation, redirects, requests>>
    /\ UNCHANGED notHttpVars

\* response.json().catch(...) of a non-2xx response settles and the error
\* is thrown
ErrorBodyRead ==
    /\ req.pc = "errorJson"
    /\ req' = [req EXCEPT !.pc = "done",
                          !.outcome = errorOutcome(req.status, req.body)]
    /\ pageError' = pageAfter(req, req'.outcome)
    /\ UNCHANGED <<token, location, pendingNavigation, redirects, requests>>
    /\ UNCHANGED notHttpVars

\* the browser loads the page assigned to window.location.href: the
\* scripts of the page that was left stop, a request of theirs never
\* settles, and the AuthProvider of the new page is mounted afresh with
\* the initial values of its useState calls
Navigate ==
    /\ pendingNavigation # "none"
    /\ location' = pendingNavigation
    /\ pendingNavigation' = "none"
    /\ req' = IF req.pc \in {"fetch", "json", "errorJson"}
              THEN [req EXCEPT !.pc = "dropped"] ELSE req
    /\ pageError' = "null"
    /\ contextToken' = "null"
    /\ user' = "null"
    /\ isLoading' = TRUE
    /\ initialized' = FALSE
    /\ authPending' = "none"
    /\ UNCHANGED <<token, redirects, requests>>
    /\ UNCHANGED <<adapterVars, statsVars, single, conv, cpfCall, pageVars>>

----------------------------------------------------------------------------
(* The conversions of the real services between the frontend and the
   backend shape.  A JavaScript object is a record whose fields hold
   undefined or Some(value); a key that is absent reads as undefined. *)

NoConversion == [op |-> "none"]

\* the fields of obj that JSON.stringify writes
Stringified(obj) ==
    [k \in {k \in DOMAIN obj : obj[k] # undefined} |-> obj[k]]

\* the updatable client fields followed here: top-level ones of each kind,
\* and fields nested in contact and in address
ClientFields ==
    {"name", "birthDate", "contact.email", "contact.phone",
     "address.zipCode", "riskTolerance", "status"}

\* the value the caller gives a field it sets
given(S, field, value) == IF field \in S THEN Some(value) ELSE undefined

\* the Partial<Client> of a caller that sets the fields S
clientPartial(S) ==
    [name |-> given(S, "name", "X"),
     birthDate |-> given(S, "birthDate", [iso |-> "1990-05-17T00:00:00.000Z"]),
     contact |->
        IF S \cap {"contact.email", "contact.phone"} = {} THEN undefined
        ELSE Some([email |-> given(S, "contact.email", "x@example.com"),
                   phone |-> given(S, "contact.phone", "11 5555-0000")]),
     address |->
        IF "address.zipCode" \in S
        THEN Some([zipCode |-> Some("01310-100")]) ELSE undefined,
     riskTolerance |-> given(S, "riskTolerance", 7),
     status |-> given(S, "status", "inactive")]

\* the value updateClient of adaptedClientService.ts puts under a backend
\* key, undefined when its test `!== undefined` fails
backendDataOfClient(client, key) ==
    CASE key = "name" -> client.name
      [] key = "birth_date" ->
            IF client.birthDate # undefined
            THEN Some(IF client.birthDate[1].iso = "1990-05-17T00:00:00.000Z"
                  THEN "1990-05-17" ELSE "Invalid")
        ELSE undefined
      [] key = "email" ->
            IF client.contact # undefined THEN client.contact[1].email
            ELSE undefined
      [] key = "phone" ->
            IF client.contact # undefined THEN client.contact[1].phone
            ELSE undefined
      [] key = "zip_code" ->
            IF client.address # undefined THEN client.address[1].zipCode
            ELSE undefined
      [] key = "risk_tolerance" -> client.riskTolerance
      [] key = "status" -> client.status

\* updateClient of adaptedClientService.ts with the fields S set
realUpdateClient ==
    /\ conv = NoConversion
    /\ \E S \in SUBSET ClientFields :
        conv' = [op |-> "updateClient", file |-> "adaptedClientService",
                 fields |-> S,
                 payload |->
                    [k \in {k \in {"name", "birth_date", "email", "phone",
                                   "zip_code", "risk_tolerance", "status"} :
                                backendDataOfClient(clientPartial(S), k) # undefined}
                        |-> backendDataOfClient(clientPartial(S), k)]]
    /\ UNCHANGED notConvVars

\* updateClient of the adapter module's RealClientService with the fields
\* S set
passThroughUpdateClient ==
    /\ conv = NoConversion
    /\ \E S \in SUBSET ClientFields :
        conv' = [op |-> "updateClient", file |-> "adapter",
                 fields |-> S,
                 payload |-> Stringified(clientPartial(S))]
    /\ UNCHANGED notConvVars

updateAllocation ==
    /\ conv = NoConversion
    /\ \E S \in SUBSET {"quantity", "buy_price", "buy_date"} :
        conv' = [op |-> "updateAllocation", file |-> "adaptedAllocationService",
                 fields |-> S,
                 payload |->
                    Stringified([quantity |-> given(S, "quantity", 10),
                                 buy_price |-> given(S, "buy_price", 25),
                                 buy_date |-> given(S, "buy_date", "2024-01-15")])]
    /\ UNCHANGED notConvVars

updateAsset ==
    /\ conv = NoConversion
    /\ \E S \in SUBSET {"symbol", "name", "currency"} :
        conv' = [op |-> "updateAsset", file |-> "adaptedAssetService",
                 fields |-> S,
                 payload |->
                    Stringified([ticker |-> given(S, "symbol", "PETR4"),
                                 name |-> given(S, "name", "Petrobras"),
                                 currency |-> given(S, "currency", "BRL")])]
    /\ UNCHANGED notConvVars

\* the optional fields of a backend client followed here, one of each kind
\* of default
OptionalClientFields ==
    {"phone", "country", "investment_profile", "risk_tolerance",
     "investment_goals", "notes"}

\* the backend's record of a client with the optional fields in Omitted
\* left out
backendClient(Omitted) ==
    [id |-> Some(7),
     name |-> Some("Maria"),
     phone |-> given(OptionalClientFields \ Omitted, "phone", "11 5555-0000"),
     country |-> given(OptionalClientFields \ Omitted, "country", "Portugal"),
     investment_profile |->
        given(OptionalClientFields \ Omitted, "investment_profile", "moderate"),
     risk_tolerance |-> given(OptionalClientFields \ Omitted, "risk_tolerance", 0),
     investment_goals |->
        given(OptionalClientFields \ Omitted, "investment_goals", <<"retirement">>),
     notes |-> given(OptionalClientFields \ Omitted, "notes", "vip")]

\* value || fallback, for a string value
or(value, fallback) == IF Truthy(value) THEN value ELSE Some(fallback)

\* value ?? fallback
nullish(value, fallback) == IF value # undefined THEN value ELSE Some(fallback)

\* bc.id.toString(): a TypeError when the id is missing
idToString(id) ==
    IF id = undefined THEN [threw |-> TRUE, value |-> undefined]
    ELSE [threw |-> FALSE,
          value |-> Some(CASE id[1] = 7 -> "7" [] OTHER -> "n")]

\* the conversion written in getClients, getClient and updateClient of
\* adaptedClientService.ts
clientWithDefaults(bc) ==
    [threw |-> idToString(bc.id).threw,
     client |->
        [id |-> idToString(bc.id).value,
         name |-> bc.name,
         phone |-> or(bc.phone, ""),
         country |-> or(bc.country, "Brasil"),
         investmentProfile |-> or(bc.investment_profile, "not_defined"),
         riskTolerance |-> nullish(bc.risk_tolerance, 5),
         investmentGoals |-> nullish(bc.investment_goals, << >>),
         notes |-> or(bc.notes, "")]]

\* the conversion written in createClient of adaptedClientService.ts
clientAsReceived(bc) ==
    [threw |-> idToString(bc.id).threw,
     client |->
        [id |-> idToString(bc.id).value,
         name |-> bc.name,
         phone |-> bc.phone,
         country |-> bc.country,
         investmentProfile |-> bc.investment_profile,
         riskTolerance |-> bc.risk_tolerance,
         investmentGoals |-> bc.investment_goals,
         notes |-> bc.notes]]

\* getClients converts a record of the backend's answer
getClientsConverts ==
    /\ conv = NoConversion
    /\ \E Omitted \in SUBSET OptionalClientFields :
        conv' = [op |-> "getClients", omitted |-> Omitted,
                 result |-> clientWithDefaults(backendClient(Omitted))]
    /\ UNCHANGED notConvVars

\* getClient converts the backend's answer
getClientConverts ==
    /\ conv = NoConversion
    /\ \E Omitted \in SUBSET OptionalClientFields :
        conv' = [op |-> "getClient", omitted |-> Omitted,
                 result |-> clientWithDefaults(backendClient(Omitted))]
    /\ UNCHANGED notConvVars

\* createClient converts the backend's answer to its POST
createClientConverts ==
    /\ conv = NoConversion
    /\ \E Omitted \in SUBSET OptionalClientFields :
        conv' = [op |-> "createClient", omitted |-> Omitted,
                 result |-> clientAsReceived(backendClient(Omitted))]
    /\ UNCHANGED notConvVars

\* updateClient converts the backend's answer to its PUT
updateClientConverts ==
    /\ conv = NoConversion
    /\ \E Omitted \in SUBSET OptionalClientFields :
        conv' = [op |-> "updateClient.response", omitted |-> Omitted,
                 result |-> clientWithDefaults(backendClient(Omitted))]
    /\ UNCHANGED notConvVars

\* a JavaScript number: a finite value or NaN
Num(v) == [nan |-> FALSE, value |-> v]
NaN == [nan |-> TRUE, value |-> 0]

\* what the backend may hold in a numeric field: nothing, a decimal string,
\* a string that starts with digits, and strings that are no number
RawNumbers == {undefined, Some("100"), Some("12abc"), Some("abc"), Some("")}

\* parseFloat(raw): the number the string starts with, NaN when there is
\* none or the value is undefined
parseFloat(raw) ==
    CASE raw = Some("100") -> Num(100)
      [] raw = Some("25") -> Num(25)
      [] raw = Some("12abc") -> Num(12)
      [] OTHER -> NaN

\* the object getAllocations makes of a backend allocation
allocationToFrontend(ba) ==
    [quantity |-> parseFloat(ba.quantity),
     buy_price |-> parseFloat(ba.buy_price),
     total_invested |-> parseFloat(ba.total_invested)]

\* the object getAllocationsByClient makes of a backend allocation
allocationOfClientToFrontend(ba) ==
    [quantity |-> parseFloat(ba.quantity),
     buy_price |-> parseFloat(ba.buy_price),
     total_invested |-> parseFloat(ba.total_invested)]

getAllocationsConverts ==
    /\ conv = NoConversion
    /\ \E ba \in [quantity : RawNumbers, buy_price : RawNumbers,
                  total_invested : RawNumbers] :
        conv' = [op |-> "getAllocations", raw |-> ba, threw |-> FALSE,
                 result |-> allocationToFrontend(ba)]
    /\ UNCHANGED notConvVars

getAllocationsByClientConverts ==
    /\ conv = NoConversion
    /\ \E ba \in [quantity : RawNumbers, buy_price : RawNumbers,
                  total_invested : RawNumbers] :
        conv' = [op |-> "getAllocationsByClient", raw |-> ba, threw |-> FALSE,
                 result |-> allocationOfClientToFrontend(ba)]
    /\ UNCHANGED notConvVars

getMovementsConverts ==
    /\ conv = NoConversion
    /\ \E bm \in [amount : RawNumbers] :
        conv' = [op |-> "getMovements", raw |-> bm, threw |-> FALSE,
                 result |-> [amount |-> parseFloat(bm.amount)]]
    /\ UNCHANGED notConvVars

----------------------------------------------------------------------------
(* The date fields of a backend client record *)

CurrentDate == [valid |-> TRUE, instant |-> "now"]
\* new Date(raw)
newDate(raw) ==
    IF raw = undefined THEN [valid |-> FALSE, instant |-> "NaN"]
    ELSE [valid |-> TRUE, instant |-> raw[1]]

\* raw ? new Date(raw) : fallback
dateOr(raw, fallback) == IF Truthy(raw) THEN Some(newDate(raw)) ELSE fallback

BackendDateFields ==
    {"birth_date", "created_at", "updated_at", "last_contact_date"}

\* the date fields of the backend's record with those in Absent left out
backendDates(Absent) ==
    [birth_date |-> given(BackendDateFields \ Absent, "birth_date", "1990-05-17"),
     created_at |->
        given(BackendDateFields \ Absent, "created_at", "2024-01-15T10:30:00Z"),
     updated_at |->
        given(BackendDateFields \ Absent, "updated_at", "2024-02-01T08:00:00Z"),
     last_contact_date |->
        given(BackendDateFields \ Absent, "last_contact_date", "2024-03-10")]

\* getClients converts the dates of a record of the backend's answer
getClientsConvertsDates ==
    /\ conv = NoConversion
    /\ \E Absent \in SUBSET BackendDateFields :
        LET bc == backendDates(Absent)
        IN  conv' = [op |-> "getClients.dates", absent |-> Absent,
                     result |->
                        [birthDate |-> dateOr(bc.birth_date, Some(CurrentDate)),
                         createdAt |-> Some(newDate(bc.created_at)),
                         updatedAt |-> Some(newDate(bc.updated_at)),
                         lastContactDate |->
                            dateOr(bc.last_contact_date, undefined)]]
    /\ UNCHANGED notConvVars

\* getClient converts the dates of the backend's answer
getClientConvertsDates ==
    /\ conv = NoConversion
    /\ \E Absent \in SUBSET BackendDateFields :
        LET bc == backendDates(Absent)
        IN  conv' = [op |-> "getClient.dates", absent |-> Absent,
                     result |->
                        [birthDate |-> Some(newDate(bc.birth_date)),
                         createdAt |-> dateOr(bc.created_at, Some(CurrentDate)),
                         updatedAt |-> dateOr(bc.updated_at, Some(CurrentDate)),
                         lastContactDate |->
                            dateOr(bc.last_contact_date, undefined)]]
    /\ UNCHANGED notConvVars

----------------------------------------------------------------------------
(* The create methods: the record goes to the backend and the backend's
   answer comes back converted.  The backend answers with what it was sent,
   decimals written as strings, and the fields it assigns itself. *)

\* an instant as a Date holds it: the UTC day and the time of that day
Instant(day, time) == [day |-> day, time |-> time]

\* backendData of createClient
clientToBackend(client) ==
    [name |-> client.name, cpf |-> client.cpf,
     birth_date |-> client.birthDate.day,    \* toISOString().split('T')[0]
     email |-> client.email,
     investment_profile |-> client.investmentProfile,
     status |-> client.status]

\* the result of createClient, made of the backend's answer
clientToFrontend(bc) ==
    [name |-> bc.name, cpf |-> bc.cpf,
     birthDate |-> Instant(bc.birth_date, "00:00:00.000Z"),    \* new Date(day)
     email |-> bc.email,
     investmentProfile |-> bc.investment_profile,
     status |-> bc.status]

\* backendData of createAsset
assetToBackend(asset) ==
    [ticker |-> asset.symbol, name |-> asset.name, exchange |-> "Unknown",
     currency |-> asset.currency]

\* the result of createAsset, made of the backend's answer
assetToFrontend(ba) ==
    [symbol |-> ba.ticker, name |-> ba.name, type |-> "stocks",
     currency |-> IF ba.currency # "" THEN ba.currency ELSE "USD"]

\* a decimal as the backend writes it in its answer
decimalString(n) == Some(CASE n.value = 100 -> "100" [] n.value = 25 -> "25")

\* backendData of createAllocation
allocationToBackend(allocation) ==
    [client_id |-> allocation.client_id, asset_id |-> allocation.asset_id,
     quantity |-> allocation.quantity, buy_price |-> allocation.buy_price,
     buy_date |-> allocation.buy_date]

\* the result of createAllocation, made of the backend's answer
createdAllocation(ba) ==
    [client_id |-> ba.client_id, asset_id |-> ba.asset_id,
     quantity |-> parseFloat(decimalString(ba.quantity)),
     buy_price |-> parseFloat(decimalString(ba.buy_price)),
     buy_date |-> ba.buy_date]

\* backendData of createMovement
movementToBackend(movement) ==
    [client_id |-> movement.client_id, type |-> movement.type,
     amount |-> movement.amount, date |-> movement.date]

\* the result of createMovement, made of the backend's answer
createdMovement(bm) ==
    [client_id |-> bm.client_id, type |-> bm.type,
     amount |-> parseFloat(decimalString(bm.amount)), date |-> bm.date]

realCreateClient ==
    /\ conv = NoConversion
    \* the birth dates a form may hold: a day at UTC midnight, the local
    \* midnight of a browser west of UTC, and the local midnight of a
    \* browser east of UTC, which is still the day before in UTC
    /\ \E x \in [name : {"Ana Souza"}, cpf : {"52998224725"},
                 birthDate : {Instant("1990-05-17", "00:00:00.000Z"),
                              Instant("1990-05-17", "03:00:00.000Z"),
                              Instant("1990-05-16", "22:00:00.000Z")},
                 email : {"ana@example.com"},
                 investmentProfile : {"moderate", "not_defined"},
                 status : {"active", "prospect"}] :
        conv' = [op |-> "createClient.roundTrip", x |-> x,
                 back |-> clientToFrontend(clientToBackend(x))]
    /\ UNCHANGED notConvVars

createAsset ==
    /\ conv = NoConversion
    /\ \E x \in [symbol : {"PETR4"}, name : {"Petrobras"},
                 type : {"stocks", "crypto", "funds"},
                 currency : {"BRL", "USD"}] :
        conv' = [op |-> "createAsset.roundTrip", x |-> x,
                 back |-> assetToFrontend(assetToBackend(x))]
    /\ UNCHANGED notConvVars

createAllocation ==
    /\ conv = NoConversion
    /\ \E x \in [client_id : {1}, asset_id : {3},
                 quantity : {Num(100), Num(25)},
                 buy_price : {Num(100), Num(25)},
                 buy_date : {"2024-01-15"}] :
        conv' = [op |-> "createAllocation.roundTrip", x |-> x,
                 back |-> createdAllocation(allocationToBackend(x))]
    /\ UNCHANGED notConvVars

createMovement ==
    /\ conv = NoConversion
    /\ \E x \in [client_id : {1}, type : {"deposit", "withdrawal"},
                 amount : {Num(100), Num(25)}, date : {"2024-02-01"}] :
        conv' = [op |-> "createMovement.roundTrip", x |-> x,
                 back |-> createdMovement(movementToBackend(x))]
    /\ UNCHANGED notConvVars

----------------------------------------------------------------------------
(* The CPF helpers of the client schema and of the movement schema.  A
   string is the sequence of its characters. *)

Digits == {"0", "1", "2", "3", "4", "5", "6", "7", "8", "9"}

\* parseInt of a digit character
digitValue(c) ==
    CASE c = "0" -> 0 [] c = "1" -> 1 [] c = "2" -> 2 [] c = "3" -> 3
      [] c = "4" -> 4 [] c = "5" -> 5 [] c = "6" -> 6 [] c = "7" -> 7
      [] c = "8" -> 8 [] c = "9" -> 9

\* cpf.replace(/\D/g, '')
cleaned(cpf) == SelectSeq(cpf, LAMBDA c : c \in Digits)

\* the replacement '$1.$2.$3-$4' of the first eleven digits of clean
grouped(clean) ==
    SubSeq(clean, 1, 3) \o <<".">> \o SubSeq(clean, 4, 6) \o <<".">>
        \o SubSeq(clean, 7, 9) \o <<"-">> \o SubSeq(clean, 10, 11)
        \o SubSeq(clean, 12, Len(clean))

\* variant of formatCPF that groups whatever digits there are
formatCPF_eager(cpf) ==
    IF Len(cleaned(cpf)) >= 11 THEN grouped(cleaned(cpf))
    ELSE IF Len(cleaned(cpf)) > 3
    THEN SubSeq(cleaned(cpf), 1, 3) \o <<".">>
            \o SubSeq(cleaned(cpf), 4, Len(cleaned(cpf)))
    ELSE cleaned(cpf)

\* formatCPF of schemas/client.ts: the pattern (\d{3})(\d{3})(\d{3})(\d{2})
\* matches when there are eleven digits, otherwise nothing is replaced
formatCPF(cpf) ==
    IF Len(cleaned(cpf)) >= 11 THEN grouped(cleaned(cpf)) ELSE cleaned(cpf)

\* formatCPF of schemas/movement.ts
formatCPFMovement(cpf) ==
    IF Len(cleaned(cpf)) >= 11 THEN grouped(cleaned(cpf)) ELSE cleaned(cpf)

\* /^(\d)\1{10}$/.test(clean), for a clean of eleven digits
allSameDigit(clean) == \A k \in DOMAIN clean : clean[k] = clean[1]

\* the loop: the sum of the first n digits times weight, weight - 1, ...
RECURSIVE weightedSum(_, _, _)
weightedSum(clean, n, weight) ==
    IF n = 0 THEN 0
    ELSE weightedSum(clean, n - 1, weight)
            + digitValue(clean[n]) * (weight - (n - 1))

\* the check digit of the client schema
remainderOf(sum) ==
    IF (sum * 10) % 11 = 10 \/ (sum * 10) % 11 = 11 THEN 0
    ELSE (sum * 10) % 11

\* variant of the movement schema's check digit without the fold to 0
digitOf_unfolded(sum) == 11 - (sum % 11)

\* the check digit of the movement schema
digitOf(sum) == IF 11 - (sum % 11) > 9 THEN 0 ELSE 11 - (sum % 11)

\* validateCPF of schemas/client.ts
validateCPF(cpf) ==
    LET cleanCPF == cleaned(cpf)
    IN  IF Len(cleanCPF) # 11 THEN FALSE
        ELSE IF allSameDigit(cleanCPF) THEN FALSE
        ELSE IF remainderOf(weightedSum(cleanCPF, 9, 10))
                    # digitValue(cleanCPF[10]) THEN FALSE
        ELSE IF remainderOf(weightedSum(cleanCPF, 10, 11))
                    # digitValue(cleanCPF[11]) THEN FALSE
        ELSE TRUE

\* validateCPF of schemas/movement.ts
validateCPFMovement(cpf) ==
    LET clean == cleaned(cpf)
    IN  IF Len(clean) # 11 THEN FALSE
        ELSE IF allSameDigit(clean) THEN FALSE
        ELSE /\ digitOf(weightedSum(clean, 9, 10)) = digitValue(clean[10])
             /\ digitOf(weightedSum(clean, 10, 11)) = digitValue(clean[11])

\* the strings given to the helpers: every string of the digits 0, 1 and 9
\* up to the longest length, and some written with other characters
CpfInputs ==
    SeqsUpTo({"0", "1", "9"}, MaxCpfLen)
        \cup {<<"1","2","3","4","5","6","7","8","9","0","0">>,
              <<"1","2","3","4","5","6","7","8","9","0","9">>,
              <<"5","2","9","9","8","2","2","4","7","2","5">>,
              <<"5","2","9",".","9","8","2",".","2","4","7","-","2","5">>,
              <<"1","2","3">>,
              <<"a","b","c">>}

NoCpfCall == [op |-> "none"]

\* formatCPF(cpf) of either schema
formatCPFCalled ==
    /\ cpfCall = NoCpfCall
    /\ \E cpf \in CpfInputs :
        cpfCall' = [op |-> "formatCPF", cpf |-> cpf,
                    client |-> formatCPF(cpf),
                    movement |-> formatCPFMovement(cpf)]
    /\ UNCHANGED notCpfVars

\* validateCPF(cpf) of either schema
validateCPFCalled ==
    /\ cpfCall = NoCpfCall
    /\ \E cpf \in CpfInputs :
        cpfCall' = [op |-> "validateCPF", cpf |-> cpf,
                    client |-> validateCPF(cpf),
                    movement |-> validateCPFMovement(cpf)]
    /\ UNCHANGED notCpfVars

----------------------------------------------------------------------------
(* The clients page: the debounce effect of the search box and the effect
   that loads the list and the investment statistics.  A displayed list is
   known by the term it was loaded for. *)

\* variant of the debounce effect whose cleanup leaves the old timer running
rescheduled_noClear(pending, n, term) ==
    pending \cup {[n |-> n + 1, term |-> term]}

\* the debounce effect runs again: the cleanup of its last run clears that
\* run's timer, then a timer for the new term is set
rescheduled(pending, n, term) ==
    {t \in pending : t.n # n} \cup {[n |-> n + 1, term |-> term]}

\* the loads in flight after the load effect has run for a term: loadData
\* is called unless the authentication is still loading
afterLoadEffect(inFlight, loading, term) ==
    IF loading THEN inFlight
    ELSE inFlight (+) SetToBag({[term |-> term, pc |-> "page"]})

\* the loads in flight once load l is at the await named pc
movedTo(inFlight, l, pc) ==
    (inFlight (-) SetToBag({l})) (+) SetToBag({[l EXCEPT !.pc = pc]})

\* onChange of the search box: setSearchTerm with another text
setSearchTerm ==
    /\ typed < MaxTyped
    /\ \E term \in {"", "a", "ab"} \ {searchTerm} :
        /\ searchTerm' = term
        /\ timers' = rescheduled(timers, typed, term)
    /\ typed' = typed + 1
    /\ UNCHANGED <<debouncedSearchTerm, authLoading, refreshTrigger, loads,
                   loadsStarted, clients, clientInvestmentStats, pageError>>
    /\ UNCHANGED notPageVars

\* a debounce timer fires: setDebouncedSearchTerm with the term it was set
\* for; a changed term runs the load effect
TimerFires ==
    /\ \E t \in timers :
        /\ timers' = timers \ {t}
        /\ debouncedSearchTerm' = t.term
        /\ IF t.term = debouncedSearchTerm
           THEN UNCHANGED <<loads, loadsStarted, pageError>>
           ELSE /\ loads' = afterLoadEffect(loads, authLoading, t.term)
                /\ loadsStarted' = IF authLoading THEN loadsStarted ELSE loadsStarted + 1
                /\ pageError' = IF authLoading THEN pageError ELSE "null"
    /\ UNCHANGED <<searchTerm, typed, authLoading, refreshTrigger, clients,
                   clientInvestmentStats>>
    /\ UNCHANGED notPageVars

\* useRequireAuth stops loading: the load effect runs
AuthResolves ==
    /\ authLoading
    /\ authLoading' = FALSE
    /\ loads' = afterLoadEffect(loads, FALSE, debouncedSearchTerm)
    /\ loadsStarted' = loadsStarted + 1
    /\ pageError' = "null"
    /\ UNCHANGED <<searchTerm, debouncedSearchTerm, timers, typed,
                   refreshTrigger, clients, clientInvestmentStats>>
    /\ UNCHANGED notPageVars

\* refreshClientList: the refresh counter changes, the load effect runs
refreshClientList ==
    /\ refreshTrigger < MaxRefreshes
    /\ refreshTrigger' = refreshTrigger + 1
    /\ loads' = afterLoadEffect(loads, authLoading, debouncedSearchTerm)
    /\ loadsStarted' = IF authLoading THEN loadsStarted ELSE loadsStarted + 1
    /\ pageError' = IF authLoading THEN pageError ELSE "null"
    /\ UNCHANGED <<searchTerm, debouncedSearchTerm, timers, typed,
                   authLoading, clients, clientInvestmentStats>>
    /\ UNCHANGED notPageVars

\* variant of the list's arrival that drops the result of a load started
\* for a term that is no longer the debounced one
listArrived_latestOnly(shown, l, current) ==
    IF l.term = current THEN Some(l.term) ELSE shown

\* setClients(clientsData.items) of a load
listArrived(shown, l, current) == Some(l.term)

\* the getClients of the displayed page resolves: with an empty term the
\* load goes on to fetch all clients, otherwise it displays the list and
\* asks for the investment statistics
PageResolves ==
    /\ \E l \in BagToSet(loads) :
        /\ l.pc = "page"
        /\ IF l.term = ""
           THEN /\ loads' = movedTo(loads, l, "all")
                /\ UNCHANGED clients
           ELSE /\ loads' = movedTo(loads, l, "stats")
                /\ clients' = listArrived(clients, l, debouncedSearchTerm)
    /\ UNCHANGED <<searchTerm, debouncedSearchTerm, timers, typed,
                   authLoading, refreshTrigger, loadsStarted,
                   clientInvestmentStats, pageError>>
    /\ UNCHANGED notPageVars

\* the getClients of all clients resolves: the load displays the list and
\* asks for the investment statistics
AllResolves ==
    /\ \E l \in BagToSet(loads) :
        /\ l.pc = "all"
        /\ loads' = movedTo(loads, l, "stats")
        /\ clients' = listArrived(clients, l, debouncedSearchTerm)
    /\ UNCHANGED <<searchTerm, debouncedSearchTerm, timers, typed,
                   authLoading, refreshTrigger, loadsStarted,
                   clientInvestmentStats, pageError>>
    /\ UNCHANGED notPageVars

\* getMultipleClientInvestmentStats resolves: setClientInvestmentStats and
\* setStats, the load is over
StatsResolve ==
    /\ \E l \in BagToSet(loads) :
        /\ l.pc = "stats"
        /\ loads' = loads (-) SetToBag({l})
        /\ clientInvestmentStats' = Some(l.term)
    /\ UNCHANGED <<searchTerm, debouncedSearchTerm, timers, typed,
                   authLoading, refreshTrigger, loadsStarted, clients, pageError>>
    /\ UNCHANGED notPageVars

\* a getClients of a load rejects: the catch empties the list and sets the
\* error banner, the load is over
GetClientsRejects ==
    /\ \E l \in BagToSet(loads) :
        /\ l.pc \in {"page", "all"}
        /\ loads' = loads (-) SetToBag({l})
    /\ clients' = undefined
    /\ \E status \in {401, 500} :
        pageError' = loadDataCatch(httpMessage(status))
    /\ UNCHANGED <<searchTerm, debouncedSearchTerm, timers, typed,
                   authLoading, refreshTrigger, loadsStarted,
                   clientInvestmentStats>>
    /\ UNCHANGED notPageVars

----------------------------------------------------------------------------
(* The AuthProvider of the authentication context, the axios client of
   authService, and useRequireAuth *)

\* Boolean(token && user)
isAuthenticated == contextToken # "null" /\ user # "null"

\* the effect that runs once after the mount: a stored token is taken as
\* the session
initializeAuth ==
    /\ ~initialized
    /\ initialized' = TRUE
    /\ IF token = "absent"
       THEN UNCHANGED <<contextToken, user>>
       ELSE contextToken' = token /\ user' = "user"
    /\ isLoading' = FALSE
    /\ UNCHANGED <<authPending, token, location, pendingNavigation>>
    /\ UNCHANGED notAuthVars

\* login(email, password) or register(email, password) up to the await of
\* the authService call
loginOrRegister ==
    /\ initialized
    /\ authPending = "none"
    /\ pendingNavigation = "none"
    /\ \E method \in {"login", "register"} : authPending' = method
    /\ isLoading' = TRUE
    /\ UNCHANGED <<contextToken, user, initialized, token, location,
                   pendingNavigation>>
    /\ UNCHANGED notAuthVars

\* the authService call resolves: the token is stored, then the context is
\* set and the router goes to the dashboard
AuthCallResolves ==
    /\ authPending # "none"
    /\ pendingNavigation = "none"
    /\ token' = "jwt"
    /\ contextToken' = "jwt"
    /\ user' = "user"
    /\ location' = "/dashboard"
    /\ isLoading' = FALSE
    /\ authPending' = "none"
    /\ UNCHANGED <<initialized, pendingNavigation>>
    /\ UNCHANGED notAuthVars

\* the response interceptor of the axios client: a 401 removes the stored
\* token and, off the public paths, assigns window.location.href
interceptorOnError(status) ==
    IF status = 401
    THEN /\ token' = "absent"
         /\ IF location \notin publicPaths
            THEN pendingNavigation' = "/login"
            ELSE UNCHANGED pendingNavigation
    ELSE UNCHANGED <<token, pendingNavigation>>

\* the authService call rejects: the interceptor runs, the catch block of
\* login or register shows the message and passes the error on
AuthCallRejects ==
    /\ authPending # "none"
    /\ pendingNavigation = "none"
    /\ \E status \in {400, 401, 500} : interceptorOnError(status)
    /\ isLoading' = FALSE
    /\ authPending' = "none"
    /\ UNCHANGED <<contextToken, user, initialized, location>>
    /\ UNCHANGED notAuthVars

\* logout(): clearAuth removes the stored token and empties the context,
\* the router goes to the landing page
logout ==
    /\ initialized
    /\ pendingNavigation = "none"
    /\ token' = "absent"
    /\ contextToken' = "null"
    /\ user' = "null"
    /\ location' = "/"
    /\ UNCHANGED <<isLoading, initialized, authPending, pendingNavigation>>
    /\ UNCHANGED notAuthVars

\* the effect of useRequireAuth on a page that requires authentication:
\* router.push('/login') once the context is loaded and not authenticated
useRequireAuth ==
    /\ location \notin publicPaths
    /\ pendingNavigation = "none"
    /\ ~isLoading
    /\ ~isAuthenticated
    /\ location' = "/login"
    /\ UNCHANGED <<contextToken, user, isLoading, initialized, authPending,
                   token, pendingNavigation>>
    /\ UNCHANGED notAuthVars

----------------------------------------------------------------------------
(* The pagination of RealClientService.getClients *)

\* variant of the skip parameter that counts the pages from 0
skipOf_fromZero(page, limit) == page * limit

\* skip: ((page - 1) * limit)
skipOf(page, limit) == (page - 1) * limit

\* the number of records a backend holding stored clients answers with:
\* those after the skipped ones, cut at limit when it honours the limit
backendAnswer(stored, skip, limit, honoursLimit) ==
    IF stored <= skip THEN 0
    ELSE IF honoursLimit THEN Min(limit, stored - skip)
    ELSE stored - skip

\* getClients(filters, sortBy, page, limit) of the real service
realGetClients ==
    /\ conv = NoConversion
    /\ \E page \in 1..MaxPage, limit \in {1, 2, 10}, stored \in 0..MaxClients,
          honoursLimit \in BOOLEAN :
        LET returned == backendAnswer(stored, skipOf(page, limit), limit,
                                      honoursLimit)
        IN  conv' = [op |-> "getClients.page", page |-> page, limit |-> limit,
                     stored |-> stored, skip |-> skipOf(page, limit),
                     returned |-> returned,
                     result |-> [total |-> returned, page |-> page,
                                 totalPages |-> Ceil(returned, limit)]]
    /\ UNCHANGED notConvVars

----------------------------------------------------------------------------
(* Specifications *)

\* the state before anything has run: no adapter call, no statistics
\* request, no HTTP request, nothing converted, and the clients page and
\* the AuthProvider as their useState calls leave them, the first
\* debounce timer set
Quiet ==
    /\ backendAvailable = "null"
    /\ calls = EmptyBag
    /\ settled = NoCall
    /\ started = 0
    /\ probesIssued = 0
    /\ liveFailures = 0
    /\ downgraded = FALSE
    /\ sawAvailable = 0
    /\ clientIds = << >>
    /\ failAt = << >>
    /\ phase = "idle"
    /\ i = 0
    /\ comp = << >>
    /\ statsMap = << >>
    /\ single = [pc |-> "idle"]
    /\ pendingNavigation = "none"
    /\ redirects = 0
    /\ requests = 0
    /\ req = NoRequest
    /\ pageError = "null"
    /\ conv = NoConversion
    /\ cpfCall = NoCpfCall
    /\ searchTerm = ""
    /\ debouncedSearchTerm = ""
    /\ timers = {[n |-> 0, term |-> ""]}
    /\ typed = 0
    /\ authLoading = TRUE
    /\ refreshTrigger = 0
    /\ loads = EmptyBag
    /\ loadsStarted = 0
    /\ clients = undefined
    /\ clientInvestmentStats = undefined
    /\ contextToken = "null"
    /\ user = "null"
    /\ isLoading = TRUE
    /\ initialized = FALSE
    /\ authPending = "none"

\* the adapter in front of a backend that accepts what it is sent; the
\* caller passes an id of the mock dataset or one it does not hold
AdapterInit ==
    /\ Quiet
    /\ alwaysThrows \in BOOLEAN
    /\ clientId \in {"2", "57"}
    /\ backendRejects = FALSE
    /\ token = "absent"
    /\ location = "/"

AdapterNext ==
    \/ getClients
    \/ getClient
    \/ createClient
    \/ updateClient
    \/ deleteClient
    \/ getClientWithAssets
    \/ ProbeSettles
    \/ RealResolves
    \/ RealThrows
    \/ MockSettles

AdapterSpec == AdapterInit /\ [][AdapterNext]_vars

\* the adapter in front of a reachable backend that rejects the mutations
ValidationInit ==
    /\ Quiet
    /\ alwaysThrows = FALSE
    /\ clientId = "2"
    /\ backendRejects = TRUE
    /\ token = "absent"
    /\ location = "/"

ValidationSpec == ValidationInit /\ [][AdapterNext]_vars

\* nothing has run and the browser is on the landing page with no token
QuietInit ==
    /\ Quiet
    /\ alwaysThrows = FALSE
    /\ clientId = "2"
    /\ backendRejects = FALSE
    /\ token = "absent"
    /\ location = "/"

StatsNext ==
    \/ getMultipleClientInvestmentStats
    \/ AllocationsResolve
    \/ BalanceResolves
    \/ MovementsResolve
    \/ FetchThrows
    \/ BatchSettles

StatsSpec == QuietInit /\ [][StatsNext]_vars

ComputeNext == getClientInvestmentStats

ComputeSpec == QuietInit /\ [][ComputeNext]_vars

\* the browser is on any of the pages, with or without a stored token
HttpInit ==
    /\ Quiet
    /\ alwaysThrows = FALSE
    /\ clientId = "2"
    /\ backendRejects = FALSE
    /\ token \in {"absent", "jwt"}
    /\ location \in (publicPaths \cup {"/clients", "/dashboard"})

HttpNext ==
    \/ request
    \/ FetchRejects
    \/ ResponseArrives
    \/ DataRead
    \/ ErrorBodyRead
    \/ Navigate

HttpSpec == HttpInit /\ [][HttpNext]_vars

ConvertNext ==
    \/ realUpdateClient
    \/ passThroughUpdateClient
    \/ updateAllocation
    \/ updateAsset
    \/ getClientsConverts
    \/ getClientConverts
    \/ createClientConverts
    \/ updateClientConverts
    \/ getAllocationsConverts
    \/ getMovementsConverts
    \/ getClientsConvertsDates
    \/ getClientConvertsDates
    \/ realCreateClient
    \/ createAsset
    \/ createAllocation
    \/ createMovement
    \/ getAllocationsByClientConverts
    \/ realGetClients

ConvertSpec == QuietInit /\ [][ConvertNext]_vars

CpfNext ==
    \/ formatCPFCalled
    \/ validateCPFCalled

CpfSpec == QuietInit /\ [][CpfNext]_vars

PageNext ==
    \/ setSearchTerm
    \/ TimerFires
    \/ AuthResolves
    \/ refreshClientList
    \/ PageResolves
    \/ AllResolves
    \/ StatsResolve
    \/ GetClientsRejects

PageSpec == QuietInit /\ [][PageNext]_vars

AuthNext ==
    \/ initializeAuth
    \/ loginOrRegister
    \/ AuthCallResolves
    \/ AuthCallRejects
    \/ logout
    \/ useRequireAuth
    \/ request
    \/ FetchRejects
    \/ ResponseArrives
    \/ DataRead
    \/ ErrorBodyRead
    \/ Navigate

AuthSpec == HttpInit /\ [][AuthNext]_vars

\* a timer that was set and not cleared fires after its 500 ms
PageFairSpec == PageSpec /\ WF_vars(TimerFires)

----------------------------------------------------------------------------
(* Properties of ClientServiceAdapter, checked under AdapterSpec *)

\* the settled call asked the mock for a client the dataset does not hold
UnknownToMock(c) ==
    /\ c.method \in {"getClient", "updateClient", "getClientWithAssets"}
    /\ c.id \notin {mockClients[k].id : k \in 1..Len(mockClients)}

\* the call added by a step that starts a call
NewCalls == {c \in BagToSet(calls') : CopiesIn(c, calls') > CopiesIn(c, calls)}

\* C1: one adapter instance issues the health probe at most once, whatever
\* the interleaving of its calls.
C1_ProbeIssuedOnce == probesIssued <= 1

\* C2: once the flag is "false" it stays "false".
C2_UnavailableIsPermanent ==
    [][backendAvailable = "false" => backendAvailable' = "false"]_vars

\* C3 as stated: when the live call of a method throws, the flag becomes
\* "false" and the same call resolves with the mock's result; no call whose
\* live call threw rejects.
C3_LiveFailureAlwaysResolves ==
    [][ /\ liveFailures' > liveFailures => backendAvailable' = "false"
        /\ (settled'.pc = "done" /\ settled'.liveThrew)
              => settled'.outcome.kind = "resolved" ]_vars

\* C3 amended: when the live call of a method throws, the flag becomes
\* "false" in the same step and the call is answered by the mock service:
\* it resolves with the mock's value, except that getClient, updateClient
\* and getClientWithAssets reject with "Cliente nao encontrado" for an id
\* the mock dataset does not hold.
C3_LiveFailureFallsBackToMock ==
    [][ /\ liveFailures' > liveFailures => backendAvailable' = "false"
        /\ (settled'.pc = "done" /\ settled'.liveThrew)
              => /\ settled'.outcome.from = "mock"
                 /\ IF UnknownToMock(settled')
                    THEN /\ settled'.outcome.kind = "rejected"
                         /\ settled'.outcome.error = "Cliente nao encontrado"
                    ELSE settled'.outcome.kind = "resolved" ]_vars

\* a call whose live call threw has been answered by the mock with a
\* rejection, the flag being "false"
C3_Witness ==
    /\ settled.pc = "done"
    /\ settled.liveThrew
    /\ settled.outcome.kind = "rejected"
    /\ backendAvailable = "false"

\* C4: once the flag has been "false", a call started later issues neither a
\* health probe nor a call to the real service; it waits for the mock only.
C4_NoRealCallAfterDowngrade ==
    [][ (downgraded /\ started' = started + 1)
            => \A c \in NewCalls : c.pc = "mock" /\ ~c.probed /\ ~c.realCalled ]_vars

\* C5 as stated: with a backend whose every request throws, every call of
\* every method with every argument resolves with the mock's value.
C5_DownBackendAlwaysResolves ==
    (alwaysThrows /\ settled.pc = "done")
        => settled.outcome.kind = "resolved" /\ settled.outcome.from = "mock"

\* C5 amended: with a backend whose every request throws, every call is
\* answered by the mock service without any call to the real service:
\* getClients, createClient and deleteClient always resolve, and getClient,
\* updateClient and getClientWithAssets resolve for the ids of the mock
\* dataset and reject with "Cliente nao encontrado" for any other id.
C5_DownBackendServedByMock ==
    (alwaysThrows /\ settled.pc = "done")
        => /\ settled.outcome.from = "mock"
           /\ ~settled.realCalled
           /\ settled.outcome.kind = (IF UnknownToMock(settled) THEN "rejected" ELSE "resolved")
           /\ settled.method = "getClients" => settled.outcome.value.total = Len(mockClients)
           /\ (settled.method = "getClient" /\ ~UnknownToMock(settled))
                 => settled.outcome.value.id = settled.id

\* the third call against a backend that always throws has settled
C5_Witness ==
    /\ alwaysThrows
    /\ started = 3
    /\ calls = EmptyBag
    /\ settled.pc = "done"
    /\ settled.outcome.from = "mock"

\* every call so far was told "available" before any live call had failed,
\* and the live call of each of them has thrown
AllFailedTogether ==
    /\ started >= 2
    /\ sawAvailable = started
    /\ liveFailures = started

\* C6 as stated: when several calls see "available" before any has failed
\* and all their live calls fail, each resolves with its mock result and the
\* flag ends "false".
C6_ConcurrentFailuresAllResolve ==
    AllFailedTogether
        => /\ backendAvailable = "false"
           /\ settled.pc = "done" => settled.outcome.kind = "resolved"

\* C6 amended: when several calls see "available" before any has failed and
\* all their live calls fail, the flag ends "false" whatever the order of
\* the failures, and each call is answered by its own mock call: it rejects
\* only when its own mock lookup does not find its own id, never because
\* another call failed.
C6_ConcurrentFailuresFallBackIndependently ==
    AllFailedTogether
        => /\ backendAvailable = "false"
           /\ \A c \in InFlight : c.pc = "mock" /\ c.liveThrew
           /\ settled.pc = "done"
                 => /\ settled.liveThrew
                    /\ settled.outcome.from = "mock"
                    /\ settled.outcome.kind = "rejected" <=> UnknownToMock(settled)

\* two calls saw "available" together, both live calls failed and both
\* calls have settled
C6_Witness ==
    /\ AllFailedTogether
    /\ calls = EmptyBag
    /\ settled.pc = "done"
    /\ settled.outcome.kind = "resolved"

\* C7: when the health probe of a getClients call fails, that call resolves
\* with the mock dataset of exactly 2 records (total = 2) and makes no call
\* to the real service.
C7_ProbeFailureGivesMockClients ==
    (/\ settled.pc = "done"
     /\ settled.method = "getClients"
     /\ settled.probed
     /\ settled.isBackendAvailable = "false")
        => /\ settled.outcome.kind = "resolved"
           /\ settled.outcome.from = "mock"
           /\ settled.outcome.value.total = 2
           /\ Len(settled.outcome.value.items) = 2
           /\ ~settled.realCalled
           /\ ~settled.liveThrew

\* the first call of the adapter is getClients, its probe has failed and it
\* has settled
C7_Witness ==
    /\ started = 1
    /\ probesIssued = 1
    /\ settled.pc = "done"
    /\ settled.method = "getClients"
    /\ settled.probed
    /\ settled.isBackendAvailable = "false"
    /\ backendAvailable = "false"

----------------------------------------------------------------------------
(* Properties of ClientInvestmentService, checked under StatsSpec *)

\* the ids whose computation has a throwing fetch in this run
Failing == {id \in DOMAIN failAt : failAt[id] # "none"}

\* what the computation of id yields when none of its fetches throws
statsOf(id) == computedStats(id, allocationsOf(id), balanceOf(id), movementsOf(id))

\* C8: the returned map has exactly the input ids as keys, each mapped to a
\* record of that id, for every input length and every outcome of the
\* computations.
C8_KeysAreTheInputIds ==
    phase = "returned"
        => /\ DOMAIN statsMap = Range(clientIds)
           /\ \A id \in DOMAIN statsMap : statsMap[id].client_id = id

\* the map of an input of MaxIds ids, spanning full batches and a partial
\* last one, has been returned
C8_Witness ==
    /\ phase = "returned"
    /\ Len(clientIds) = MaxIds
    /\ Len(clientIds) % batchSize # 0
    /\ Failing # {}

\* C9: when the computation of exactly one client X throws, the returned map
\* holds the default record for X and the computed values for every other
\* client, those of X's batch and of the later batches included.
C9_OneFailureIsIsolated ==
    (phase = "returned" /\ Cardinality(Failing) = 1)
        => \A id \in Range(clientIds) :
              /\ id \in DOMAIN statsMap
              /\ statsMap[id] = IF id \in Failing
                                THEN [client_id |-> id, total_allocations |-> 0,
                                      total_invested |-> 0, net_balance |-> 0,
                                      last_investment_date |-> undefined]
                                ELSE statsOf(id)

\* the map has been returned after client 2, in the first of several
\* batches, failed
C9_Witness ==
    /\ phase = "returned"
    /\ Failing = {2}
    /\ Len(clientIds) > 2 * batchSize
    /\ statsMap[1] = statsOf(1)
    /\ statsMap[1].total_allocations > 0

\* C10: a computation never rejects, and when one of its three fetches
\* throws it resolves with the zeroed record of its id, also when earlier
\* fetches had succeeded.
C10_FailureGivesZeroedStats ==
    \A s \in DOMAIN comp :
        comp[s].pc = "settled"
            => /\ comp[s].result.kind = "resolved"
               /\ comp[s].threw # "none"
                     => comp[s].result.value =
                            [client_id |-> comp[s].clientId, total_allocations |-> 0,
                             total_invested |-> 0, net_balance |-> 0,
                             last_investment_date |-> undefined]

\* a computation whose allocations and balance were fetched and whose
\* movements fetch threw has settled
C10_Witness ==
    \E s \in DOMAIN comp :
        /\ comp[s].pc = "settled"
        /\ comp[s].threw = "movements"
        /\ Len(allocationsOf(comp[s].clientId)) > 0

\* the computations of the current batch that have not settled; each of
\* them waits for exactly one HTTP request, the fetch named by its pc
Unsettled == {s \in DOMAIN comp : comp[s].pc \in Fetches}

\* the step starts computations: the first batch or the next one
StartsBatch == phase' = "running" /\ (phase = "idle" \/ i' # i)

\* C11: the batches run one after another: a step starts the computations
\* of a batch only when every computation of the batch before has settled,
\* and at no moment are more than batchSize computations, hence more than
\* batchSize requests, in flight.
C11_BatchesRunOneAfterAnother ==
    [][ /\ StartsBatch => \A s \in DOMAIN comp : comp[s].pc = "settled"
        /\ StartsBatch => Len(comp') <= batchSize
        /\ Cardinality(Unsettled') <= batchSize ]_vars

\* a later batch with batchSize computations in flight
C11_Witness ==
    /\ phase = "running"
    /\ i >= batchSize
    /\ Cardinality(Unsettled) = batchSize


----------------------------------------------------------------------------
(* Properties of getClientInvestmentStats, checked under ComputeSpec *)

\* the sum of the amounts of the movements at the positions S
RECURSIVE SumOfAmounts(_, _)
SumOfAmounts(movements, S) ==
    IF S = {} THEN 0
    ELSE LET k == CHOOSE k \in S : TRUE
         IN  movements[k].amount + SumOfAmounts(movements, S \ {k})

\* C12: total_invested is the sum of the amounts of exactly the movements
\* that are deposits with status completed; withdrawals and deposits of
\* another status add nothing.
C12_TotalInvestedIsCompletedDeposits ==
    single.pc = "resolved" =>
        single.stats.total_invested =
            SumOfAmounts(single.movements,
                         {k \in DOMAIN single.movements :
                            /\ single.movements[k].type = "deposit"
                            /\ single.movements[k].status = "completed"})

\* completed deposits of 100 and 50 and a pending one of 9999 give 150
C12_Witness ==
    /\ single.pc = "resolved"
    /\ single.movements =
          << [type |-> "deposit", status |-> "completed", amount |-> 100],
             [type |-> "deposit", status |-> "completed", amount |-> 50],
             [type |-> "deposit", status |-> "pending", amount |-> 9999] >>
    /\ single.stats.total_invested = 150

\* C13: on success total_allocations is the number of allocations,
\* net_balance the balance's totalBalance, and last_investment_date the
\* latest buy_date whatever the order of the allocations, undefined when
\* there is none.
C13_CountBalanceAndLatestDate ==
    single.pc = "resolved" =>
        /\ single.stats.total_allocations = Len(single.allocations)
        /\ single.stats.net_balance = single.balance.totalBalance
        /\ IF single.allocations = << >>
           THEN single.stats.last_investment_date = undefined
           ELSE \E k \in DOMAIN single.allocations :
                   /\ single.stats.last_investment_date
                         = Some(single.allocations[k].buy_date)
                   /\ \A j \in DOMAIN single.allocations :
                         single.allocations[j].buy_date
                             <= single.allocations[k].buy_date

\* the latest allocation arrives in the middle
C13_Witness ==
    /\ single.pc = "resolved"
    /\ Len(single.allocations) = 3
    /\ single.allocations[1].buy_date = 10
    /\ single.allocations[2].buy_date = 30
    /\ single.allocations[3].buy_date = 20
    /\ single.stats.last_investment_date = Some(30)
    /\ single.stats.total_allocations = 3
    /\ single.stats.net_balance = 250

----------------------------------------------------------------------------
(* Properties of ApiClient.request, checked under HttpSpec *)

\* the step in which the response of the request arrives with 401 or 403
AuthFailureArrives ==
    req.pc = "fetch" /\ req'.pc = "errorJson" /\ req'.status \in {401, 403}

\* the request has ended after a 401 or 403
AuthFailureEnded == req.pc = "done" /\ req.status \in {401, 403}

\* C14: whatever the endpoint, when a response has status 401 or 403 the
\* access_token is removed from local storage and is absent when the request
\* completes, and window.location.href is set to /login exactly when the
\* current path is none of "/", "/login", "/register".
C14_AuthFailureClearsTokenAndRedirects ==
    [][ /\ AuthFailureArrives =>
             /\ token' = "absent"
             /\ IF location \in publicPaths
                THEN redirects' = redirects /\ pendingNavigation' = "none"
                ELSE redirects' = redirects + 1 /\ pendingNavigation' = "/login"
        /\ AuthFailureEnded' => token' = "absent" ]_vars

\* a 403 on /assets, sent with a token from the page /clients, has
\* completed: the token is gone and the browser is leaving for /login
C14_Witness ==
    /\ AuthFailureEnded
    /\ req.status = 403
    /\ req.endpoint = "/assets"
    /\ req.authorization = "jwt"
    /\ token = "absent"
    /\ location = "/clients"
    /\ pendingNavigation = "/login"

\* C15 as stated: a 401 or 403 is handled inside the wrapper and never
\* reaches the caller as an error: the request does not reject and the page
\* shows no error.
C15_AuthFailureNeverSurfaces ==
    AuthFailureEnded => req.outcome.kind # "rejected" /\ pageError = "null"

\* C15 amended: a 401 or 403 is handled once inside the wrapper (the step
\* in which it arrives is the only one that removes the token or redirects,
\* and it redirects at most once), and the request then rejects like any
\* other non-2xx response, with the error of the body, which the caller
\* catches: ClientsPage.loadData shows it as its error banner.
C15_AuthFailureHandledOnceThenThrown ==
    [][ /\ (token' # token \/ redirects' # redirects) =>
             AuthFailureArrives /\ redirects' <= redirects + 1
        /\ (req.pc = "errorJson" /\ AuthFailureEnded') =>
             /\ req'.outcome = Rejected("api", errorMessage(req'.status, req'.body))
             /\ req'.endpoint = "/clients" => pageError' # "null" ]_vars

\* a 401 without a JSON body on the public page "/": nothing redirects, the
\* request rejects and loadData shows the session banner
C15_Witness ==
    /\ AuthFailureEnded
    /\ req.status = 401
    /\ req.endpoint = "/clients"
    /\ location = "/"
    /\ redirects = 0
    /\ req.outcome = Rejected("api", "HTTP 401: Unauthorized")
    /\ pageError = "Sessao expirada"

\* the request has ended after a non-2xx response
ErrorResponseEnded == req.pc = "done" /\ req.status # 0 /\ ~ok(req.status)

----------------------------------------------------------------------------
(* Validation failures behind ClientServiceAdapter, checked under
   ValidationSpec *)

\* the error the real service call of c throws: the one ApiClient.request
\* makes of the backend's 400 when the backend rejects the mutation, a
\* failed fetch otherwise
liveError(c) ==
    IF backendRejects /\ c.method \in Mutations
    THEN errorMessage(400, [parseable |-> TRUE,
                            detail |-> Some("CPF already registered"),
                            message |-> undefined])
    ELSE "Failed to fetch"

\* C16: a validation failure of createClient, updateClient or deleteClient
\* (a 4xx with a JSON detail) leaves the availability flag as it was and
\* reaches the caller as a rejection carrying the detail; the call does not
\* end with a value of the mock service.
C16_ValidationFailureReachesCaller ==
    [][ /\ \A c \in {c \in NewCalls : c.pc = "mock" /\ c.liveThrew} :
              (backendRejects /\ c.method \in Mutations)
                  => backendAvailable' = backendAvailable
        /\ (/\ settled'.pc = "done"
            /\ settled'.liveThrew
            /\ backendRejects
            /\ settled'.method \in Mutations)
               => /\ settled'.outcome.kind = "rejected"
                  /\ settled'.outcome.from # "mock"
                  /\ settled'.outcome.error = liveError(settled') ]_vars

----------------------------------------------------------------------------
(* Properties of the conversions, checked under ConvertSpec *)

\* the backend name of a frontend field
backendName(field) ==
    CASE field = "birthDate" -> "birth_date"
      [] field = "contact.email" -> "email"
      [] field = "contact.phone" -> "phone"
      [] field = "address.zipCode" -> "zip_code"
      [] field = "riskTolerance" -> "risk_tolerance"
      [] field = "symbol" -> "ticker"
      [] OTHER -> field

\* C18: an update of the fields S sends a payload whose keys are exactly
\* the backend names of S, and none of them holds undefined.
C18_PayloadIsExactlyTheSetFields ==
    conv.op \in {"updateClient", "updateAllocation", "updateAsset"} =>
        /\ DOMAIN conv.payload = {backendName(f) : f \in conv.fields}
        /\ \A k \in DOMAIN conv.payload : conv.payload[k] # undefined

\* the frontend fields that have a default, with their defaults
Defaults ==
    [phone |-> Some(""), country |-> Some("Brasil"),
     investmentProfile |-> Some("not_defined"), riskTolerance |-> Some(5),
     investmentGoals |-> Some(<< >>), notes |-> Some("")]

\* C19: whichever optional fields the backend's client record omits, the
\* conversion of getClients, getClient, createClient and updateClient does
\* not throw and gives every field that has a default a defined value.
C19_OmittedFieldsGetDefaults ==
    conv.op \in {"getClients", "getClient", "createClient", "updateClient.response"} =>
        /\ ~conv.result.threw
        /\ \A f \in DOMAIN Defaults : conv.result.client[f] # undefined

\* C20: a numeric field of a backend allocation or movement that is
\* missing or not parseable comes out as 0, never as NaN, and the
\* conversion does not throw.
C20_UnparseableNumberGivesZero ==
    conv.op \in {"getAllocations", "getMovements"} =>
        /\ ~conv.threw
        /\ \A f \in DOMAIN conv.raw :
              /\ ~conv.result[f].nan
              /\ conv.raw[f] \in {undefined, Some("abc"), Some("")}
                    => conv.result[f] = Num(0)

\* the frontend name of a backend date field
frontendDateName(field) ==
    CASE field = "birth_date" -> "birthDate"
      [] field = "created_at" -> "createdAt"
      [] field = "updated_at" -> "updatedAt"
      [] field = "last_contact_date" -> "lastContactDate"

\* C21: a date field absent from the backend's client record is undefined
\* in the frontend client: neither an invalid date nor the current date.
C21_AbsentDateIsUndefined ==
    conv.op \in {"getClients.dates", "getClient.dates"} =>
        \A f \in conv.absent : conv.result[frontendDateName(f)] = undefined

\* C22: for every adapter, a well-formed frontend record sent to the
\* backend and converted back is equal to the record on every non-optional
\* field that both shapes have.
C22_RoundTripIsIdentity ==
    conv.op \in {"createClient.roundTrip", "createAsset.roundTrip",
                 "createAllocation.roundTrip", "createMovement.roundTrip"} =>
        \A f \in DOMAIN conv.x : conv.back[f] = conv.x[f]

----------------------------------------------------------------------------
(* Properties of the CPF helpers, checked under CpfSpec *)

\* d1d2d3.d4d5d6.d7d8d9-d10d11
Punctuated(d) ==
    << d[1], d[2], d[3], ".", d[4], d[5], d[6], ".", d[7], d[8], d[9],
       "-", d[10], d[11] >>

\* C23: formatCPF, in either schema, always returns a string: for eleven
\* digits d1..d11 the string d1d2d3.d4d5d6.d7d8d9-d10d11, and a string of
\* fewer than eleven digits unchanged.
C23_FormatCPF ==
    (/\ cpfCall.op = "formatCPF"
     /\ \A k \in DOMAIN cpfCall.cpf : cpfCall.cpf[k] \in Digits) =>
        /\ Len(cpfCall.cpf) = 11 =>
              /\ cpfCall.client = Punctuated(cpfCall.cpf)
              /\ cpfCall.movement = Punctuated(cpfCall.cpf)
        /\ Len(cpfCall.cpf) < 11 =>
              /\ cpfCall.client = cpfCall.cpf
              /\ cpfCall.movement = cpfCall.cpf

\* formatCPF('12345678900') has given '123.456.789-00'
C23_Witness ==
    /\ cpfCall.op = "formatCPF"
    /\ cpfCall.cpf = <<"1","2","3","4","5","6","7","8","9","0","0">>
    /\ cpfCall.client =
          <<"1","2","3",".","4","5","6",".","7","8","9","-","0","0">>

\* C29: the validateCPF of the client schema and the one of the movement
\* schema give the same verdict for every string: both reject a string whose
\* digit count is not 11 and a string of 11 equal digits, and their
\* check-digit rules agree for every digit sum.
C29_ValidateCPFAgree ==
    /\ cpfCall.op = "validateCPF" =>
          /\ cpfCall.client = cpfCall.movement
          /\ Len(cleaned(cpfCall.cpf)) # 11 => ~cpfCall.client /\ ~cpfCall.movement
          /\ (Len(cleaned(cpfCall.cpf)) = 11 /\ allSameDigit(cleaned(cpfCall.cpf)))
                => ~cpfCall.client /\ ~cpfCall.movement
    /\ cpfCall = NoCpfCall =>
          \* the sums reach ten nines under the weights 11 down to 2
          \A sum \in 0..(9 * (11 + 10 + 9 + 8 + 7 + 6 + 5 + 4 + 3 + 2)) :
              remainderOf(sum) = digitOf(sum)

\* both schemas have accepted a CPF whose first check digit is the 0 that
\* stands for a 10 or an 11
C29_Witness ==
    /\ cpfCall.op = "validateCPF"
    /\ cpfCall.client
    /\ cpfCall.movement
    /\ 11 - (weightedSum(cleaned(cpfCall.cpf), 9, 10) % 11) > 9

----------------------------------------------------------------------------
(* Properties of the clients page, checked under PageSpec and PageFairSpec *)

\* C24: loads started for successive search terms can resolve out of
\* order: whichever load's list or statistics arrive are displayed, also
\* when a load for a newer term is in flight or has finished, so once all
\* requests have settled the displayed list and statistics can belong to
\* an older term than the debounced search term.
C24_OlderLoadOverwrites ==
    [][\A l \in BagToSet(loads) :
          /\ (l.pc \in {"page", "all"} /\ loads' = movedTo(loads, l, "stats"))
                => clients' = Some(l.term)
          /\ (l.pc = "stats" /\ loads' = loads (-) SetToBag({l}))
                => clientInvestmentStats' = Some(l.term)]_vars

\* every request has settled and no timer is pending, and the displayed
\* list and statistics are those of a term that is not the debounced one
C24_Witness ==
    /\ loads = EmptyBag
    /\ timers = {}
    /\ debouncedSearchTerm = searchTerm
    /\ clients # undefined
    /\ clients # Some(debouncedSearchTerm)
    /\ clientInvestmentStats = clients

\* C28: every change of searchTerm cancels the pending debounce timer and
\* starts a new one, so at most one timer is pending; a term replaced
\* before its timer fires never becomes debouncedSearchTerm and never
\* triggers a load; and once typing stops debouncedSearchTerm eventually
\* equals searchTerm.
C28_Debounce ==
    /\ [](Cardinality(timers) <= 1)
    /\ [][ /\ searchTerm' # searchTerm
                => timers' = {[n |-> typed', term |-> searchTerm']}
           /\ debouncedSearchTerm' # debouncedSearchTerm
                => debouncedSearchTerm' = searchTerm
           /\ \A l \in BagToSet(loads') :
                (l.pc = "page" /\ CopiesIn(l, loads') > CopiesIn(l, loads))
                    => l.term = debouncedSearchTerm' ]_vars
    /\ <>[][searchTerm' = searchTerm]_vars
          => <>[](debouncedSearchTerm = searchTerm)

\* "a" was typed and replaced by "ab" before its timer fired: the only
\* loads ever started are the first one and the one for "ab"
C28_Witness ==
    /\ typed = 2
    /\ searchTerm = "ab"
    /\ debouncedSearchTerm = "ab"
    /\ timers = {}
    /\ refreshTrigger = 0
    /\ loadsStarted = 2
    /\ {l.term : l \in BagToSet(loads)} = {"", "ab"}

----------------------------------------------------------------------------
(* The moment getMultipleClientInvestmentStats resolves, checked under
   StatsSpec *)

\* C25: getMultipleClientInvestmentStats resolves only after the
\* computations of every batch have settled: on the step that returns the
\* map no computation is in flight and no batch is left to start, the map
\* holds every id, and the returned map is not changed afterwards.
C25_ResolvesAfterEveryBatch ==
    [][ /\ (phase # "returned" /\ phase' = "returned") =>
              /\ \A s \in DOMAIN comp : comp[s].pc = "settled"
              /\ i + Len(comp) = Len(clientIds')
              /\ DOMAIN statsMap' = Range(clientIds')
              /\ Unsettled' = {}
        /\ phase = "returned" => statsMap' = statsMap /\ Unsettled' = {} ]_vars

\* the map of an input of two batches, none of whose fetches threw, has
\* been returned
C25_Witness ==
    /\ phase = "returned"
    /\ Len(clientIds) = batchSize + 1
    /\ Failing = {}
    /\ DOMAIN statsMap = Range(clientIds)

----------------------------------------------------------------------------
(* The derived total of an allocation, checked under ConvertSpec *)

\* the product of two numbers, NaN when one of them is NaN
times(a, b) == IF a.nan \/ b.nan THEN NaN ELSE Num(a.value * b.value)

\* C26: for every allocation record the backend returns without
\* total_invested, the allocation adapter yields total_invested =
\* quantity x buy_price of that record.
C26_MissingTotalIsDerived ==
    (/\ conv.op \in {"getAllocations", "getAllocationsByClient"}
     /\ conv.raw.total_invested = undefined)
        => conv.result.total_invested
              = times(conv.result.quantity, conv.result.buy_price)

----------------------------------------------------------------------------
(* The authentication context and the stored token, checked under AuthSpec *)

\* C27: whenever the AuthProvider reports isAuthenticated = true, the
\* access_token is present in local storage, whatever the logins, logouts
\* and API responses (a 401 or 403 handled by the HTTP wrapper included)
\* that came before.
C27_AuthenticatedImpliesStoredToken == isAuthenticated => token # "absent"

----------------------------------------------------------------------------
(* The pagination of the real getClients, checked under ConvertSpec *)

\* C30: getClients(page, limit) of the real service asks for skip =
\* (page - 1) * limit and reports total = the number of items of the
\* returned page and totalPages = ceil(that number / limit); so whenever
\* the backend returns at most limit items, totalPages is 0 or 1 for every
\* page, whatever the real number of clients.
C30_PaginationCountsTheReturnedPage ==
    conv.op = "getClients.page" =>
        /\ conv.skip = (conv.page - 1) * conv.limit
        /\ conv.result.total = conv.returned
        /\ conv.result.page = conv.page
        /\ conv.result.totalPages * conv.limit >= conv.returned
        /\ (conv.result.totalPages - 1) * conv.limit < conv.returned
        /\ conv.returned <= conv.limit => conv.result.totalPages \in {0, 1}

\* page 2 of 12 clients, two to the page: a full page came back and
\* totalPages is 1
C30_Witness ==
    /\ conv.op = "getClients.page"
    /\ conv.page = 2
    /\ conv.limit = 2
    /\ conv.stored = 12
    /\ conv.returned = 2
    /\ conv.result.totalPages = 1

====
